---- MODULE Spec2Model ----
(***************************************************************************)
(* A model of gdrive-local-sync.py: the recursive mirror of a remote Drive *)
(* folder onto a local directory (sync_folder), its helpers                *)
(* (_sanitize_filename, list_folder, _download_to_file) and the part of    *)
(* main that drives it.                                                    *)
(*                                                                         *)
(* Strings are sequences of one-character strings, a local path is the     *)
(* sequence of its components below "/", and the local file system is the  *)
(* pair (dirs, files) keyed by resolved absolute paths (POSIX rules, no    *)
(* symbolic links).                                                        *)
(***************************************************************************)
EXTENDS Integers, Sequences, FiniteSets, TLC

(* ---------------- bounds of the model ---------------- *)

\* total number of remote entries the remote tree may hold
MaxEntries == 3
\* number of times the program is run against the same remote tree
MaxRuns == 2
\* largest number of entries the remote service returns in one page
MaxPage == 2

(* ---------------- characters and names ---------------- *)

NUL == "NUL"
\* the subset of str.strip()'s whitespace that names of the model contain
Whitespace == {" ", "\t", "\n", "\r"}
\* '\n\r\t\x00' of line 190
ControlChars == {"\n", "\r", "\t", NUL}
\* r'\/:*?"<>|' of line 192
ReservedChars == {"\\", "/", ":", "*", "?", "\"", "<", ">", "|"}

unnamed == <<"u", "n", "n", "a", "m", "e", "d">>

RECURSIVE LStrip(_)
LStrip(s) ==
  IF s # <<>> /\ Head(s) \in Whitespace THEN LStrip(Tail(s)) ELSE s

RECURSIVE RStrip(_)
RStrip(s) ==
  IF s # <<>> /\ s[Len(s)] \in Whitespace
    THEN RStrip(SubSeq(s, 1, Len(s) - 1))
    ELSE s

\* str.strip()
Strip(s) == RStrip(LStrip(s))

\* name.replace(ch, "") for every ch of chars
RemoveChars(s, chars) == SelectSeq(s, LAMBDA c : c \notin chars)

\* name.replace(ch, r) for every ch of chars
ReplaceChars(s, chars, r) ==
  [k \in 1..Len(s) |-> IF s[k] \in chars THEN r ELSE s[k]]

\* a slip: no placeholder for a name of which nothing is left
_sanitize_filename_noplaceholder(name) ==
  ReplaceChars(RemoveChars(Strip(name), ControlChars), ReservedChars, "_")

_sanitize_filename(name) ==
  LET stripped == Strip(name)
      cleaned  == RemoveChars(stripped, ControlChars)
      replaced == ReplaceChars(cleaned, ReservedChars, "_")
  IN  IF replaced = <<>> THEN unnamed ELSE replaced

(* ---------------- paths (pathlib and the kernel) ---------------- *)

Flush(acc, cur) ==
  IF cur = <<>> \/ cur = <<".">> THEN acc ELSE Append(acc, cur)

RECURSIVE Split(_, _, _)
\* the components of a path string: split at "/", empty and "." parts dropped
Split(s, cur, acc) ==
  IF s = <<>> THEN Flush(acc, cur)
  ELSE IF Head(s) = "/" THEN Split(Tail(s), <<>>, Flush(acc, cur))
  ELSE Split(Tail(s), Append(cur, Head(s)), acc)

\* local_dir / name : an absolute right operand replaces the left one
PathJoin(dir, name) ==
  IF name # <<>> /\ Head(name) = "/"
    THEN Split(name, <<>>, <<>>)
    ELSE dir \o Split(name, <<>>, <<>>)

DotDot == <<".", ".">>

RECURSIVE Walk(_, _)
Walk(p, acc) ==
  IF p = <<>> THEN acc
  ELSE IF Head(p) = DotDot
    THEN Walk(Tail(p), IF acc = <<>> THEN acc ELSE SubSeq(acc, 1, Len(acc) - 1))
    ELSE Walk(Tail(p), Append(acc, Head(p)))

\* the directory entry the kernel reaches for a path: ".." steps to the parent
Resolve(p) == Walk(p, <<>>)

\* the path and all its ancestors
Prefixes(p) == {SubSeq(p, 1, n) : n \in 0..Len(p)}

\* the top-level local root (local_root of main, already absolute and resolved)
LocalRoot == << <<"r">> >>

\* p lies in the subtree rooted at the top-level local root
InsideRoot(p) ==
  Len(p) >= Len(LocalRoot) /\ SubSeq(p, 1, Len(LocalRoot)) = LocalRoot

(* ---------------- the remote service ---------------- *)

None == "None"

FOLDER       == "application/vnd.google-apps.folder"
DOCUMENT     == "application/vnd.google-apps.document"
SPREADSHEET  == "application/vnd.google-apps.spreadsheet"
PRESENTATION == "application/vnd.google-apps.presentation"
DRAWING      == "application/vnd.google-apps.drawing"
SCRIPT       == "application/vnd.google-apps.script"
FORM         == "application/vnd.google-apps.form"
SITE         == "application/vnd.google-apps.site"
\* a provider-native type the table of the program does not list
MAP          == "application/vnd.google-apps.map"
\* an ordinary binary file
OCTET        == "application/octet-stream"

\* native type -> <<export MIME, local extension>>
EXPORT_FORMATS ==
  (DOCUMENT     :> <<"application/vnd.openxmlformats-officedocument.wordprocessingml.document", <<".", "d", "o", "c", "x">> >>) @@
  (SPREADSHEET  :> <<"application/vnd.openxmlformats-officedocument.spreadsheetml.sheet", <<".", "x", "l", "s", "x">> >>) @@
  (PRESENTATION :> <<"application/vnd.openxmlformats-officedocument.presentationml.presentation", <<".", "p", "p", "t", "x">> >>) @@
  (DRAWING      :> <<"image/png", <<".", "p", "n", "g">> >>) @@
  (SCRIPT       :> <<"application/vnd.google-apps.script+json", <<".", "j", "s", "o", "n">> >>) @@
  (FORM         :> <<None, None>>) @@
  (SITE         :> <<None, None>>) @@
  (FOLDER       :> <<None, None>>)

\* the byte lengths of remote files and of their bodies
Sizes == {0, 1}

\* the raw names remote entries of the model carry
FolderNames == {<<"a">>, DotDot, <<"/">>}
FileNames   == {<<"a">>}

\* what a listing may say about one entry, apart from its id; an entry is
\* the dict of the listing, with or without the key "size"
Shapes ==
  [name : FolderNames, mimeType : {FOLDER}]
    \cup [name : {<<"a">>}, mimeType : {SPREADSHEET, FORM, MAP}]
    \cup [name : FileNames, mimeType : {OCTET}]
    \cup [name : FileNames, mimeType : {OCTET}, size : Sizes]

\* the id of the remote root folder
RootId == 0

WithId(shape, id) ==
  IF "size" \in DOMAIN shape
    THEN [id |-> id, name |-> shape.name, mimeType |-> shape.mimeType,
          size |-> shape.size]
    ELSE [id |-> id, name |-> shape.name, mimeType |-> shape.mimeType]

\* the listings the service may return for a folder not listed before:
\* up to n entries with fresh ids first, first + 1, ...
Listings(first, n) ==
  UNION {{[k \in 1..m |-> WithId(f[k], first + k - 1)] : f \in [1..m -> Shapes]}
         : m \in 0..n}

(* ---------------- state ---------------- *)

VARIABLES
  phase,      \* where main is: "verify", "sync", "done", "exit1", "crashed"
  run,        \* the number of this run of the program
  remote,     \* the remote tree: folder id -> its listing, as far as it was listed
  nextId,     \* the next unused entry id of the remote tree
  stack,      \* the active sync_folder calls, outermost first
  stats,      \* the SyncStats instance of this run
  dirs,       \* the local directories (resolved paths)
  files,      \* the local files: resolved path -> [size, src]
  fetches,    \* the media requests of this run executed so far
  out,        \* what the last step printed about an entry
  cancelled,  \* main caught KeyboardInterrupt in this run
  last,       \* how the previous run ended
  raw_name,   \* a name handed to _sanitize_filename
  sanitized   \* what _sanitize_filename returned for it, call after call

\* the state of main and sync_folder
syncvars == <<phase, run, remote, nextId, stack, stats, dirs, files, fetches, out,
              cancelled, last>>

vars == <<phase, run, remote, nextId, stack, stats, dirs, files, fetches, out,
          cancelled, last, raw_name, sanitized>>

SyncStats ==
  [downloaded |-> 0, skipped |-> 0, exported |-> 0, failed |-> 0, unsupported |-> 0]

NoOut == [line |-> "", id |-> -1, e |-> ""]

NoFiles == [p \in {} |-> 0]

NoRun == [phase |-> "", cancelled |-> FALSE, stats |-> SyncStats]

\* the local file systems a run may start from
LocalStates ==
  { [dirs |-> {<<>>}, files |-> NoFiles],
    [dirs |-> {<<>>, LocalRoot},
     files |-> (Append(LocalRoot, <<"a">>) :> [size |-> 1, src |-> -1])] }

Init ==
  /\ phase = "verify"
  /\ run = 1
  /\ remote = [f \in {} |-> <<>>]
  /\ nextId = 1
  /\ stack = <<>>
  /\ stats = SyncStats
  /\ \E l \in LocalStates : dirs = l.dirs /\ files = l.files
  /\ fetches = 0
  /\ out = NoOut
  /\ cancelled = FALSE
  /\ last = NoRun
  /\ raw_name = <<>>
  /\ sanitized = <<>>

(* ---------------- helpers on the call stack ---------------- *)

Top == stack[Len(stack)]

Frame(folder_id, local_dir, depth) ==
  [folder_id |-> folder_id, local_dir |-> local_dir, depth |-> depth,
   items |-> <<>>, i |-> 1, pc |-> "mkdir"]

SetTop(f) == [stack EXCEPT ![Len(stack)] = f]

\* the for loop of the innermost call stands at an item
AtItem ==
  /\ phase = "sync"
  /\ stack # <<>>
  /\ Top.pc = "loop"
  /\ Top.i <= Len(Top.items)

Item == Top.items[Top.i]

\* int(item.get("size", -1))
drive_size(item) == IF "size" \in DOMAIN item THEN item.size ELSE -1

\* the loop goes on with the next item
Continue == stack' = SetTop([Top EXCEPT !.i = @ + 1])

\* an exception nobody catches: every sync_folder call is left and main dies
\* with the traceback of the exception
Uncaught(e) ==
  /\ stack' = <<>>
  /\ phase' = "crashed"
  /\ out' = [line |-> "traceback", id |-> Top.folder_id, e |-> e]

\* a slip: the download is not guarded, its exception leaves sync_folder
Handled_uncaught(r, counter) ==
  IF r.e = ""
    THEN /\ stats' = [stats EXCEPT ![counter] = @ + 1]
         /\ out' = [line |-> "ok", id |-> Item.id, e |-> r.e]
         /\ Continue
         /\ UNCHANGED phase
    ELSE /\ stats' = stats
         /\ out' = [line |-> "err", id |-> Item.id, e |-> r.e]
         /\ stack' = <<>>
         /\ phase' = "crashed"

\* the try statements of lines 227-234 and 250-257 around one download with
\* the result r: the counter of the success, or failed for any Exception
Handled(r, counter) ==
  /\ stats' = IF r.e = "" THEN [stats EXCEPT ![counter] = @ + 1]
                          ELSE [stats EXCEPT !.failed = @ + 1]
  /\ out' = [line |-> IF r.e = "" THEN "ok" ELSE "err", id |-> Item.id, e |-> r.e]
  /\ Continue
  /\ UNCHANGED phase


\* Path.exists()
Exists(p) == p \in dirs \/ p \in DOMAIN files

\* Path.stat().st_size; a directory reports the size of its block
st_size(p) == IF p \in DOMAIN files THEN files[p].size ELSE 4096

\* a slip: an empty remote file counts as one of unknown size
UpToDate_positive(item, local_path) ==
  /\ Exists(Resolve(local_path))
  /\ drive_size(item) > 0
  /\ st_size(Resolve(local_path)) = drive_size(item)

\* a slip: any local copy counts as up to date
UpToDate_anysize(item, local_path) == Exists(Resolve(local_path))

\* lines 240-242: the local copy is there and has the size the remote reports
UpToDate(item, local_path) ==
  /\ Exists(Resolve(local_path))
  /\ drive_size(item) >= 0
  /\ st_size(Resolve(local_path)) = drive_size(item)

\* lines 224 and 238: where the entry is written
LocalPath(item, local_dir) ==
  LET name == _sanitize_filename(item.name) IN
    IF item.mimeType \in DOMAIN EXPORT_FORMATS
      THEN PathJoin(local_dir, name \o EXPORT_FORMATS[item.mimeType][2])
      ELSE PathJoin(local_dir, name)

\* a slip: an export is left out when its local copy is there already
Decision_keepexport(item, local_dir) ==
  IF item.mimeType = FOLDER THEN "recurse"
  ELSE IF item.mimeType \in DOMAIN EXPORT_FORMATS
    THEN IF EXPORT_FORMATS[item.mimeType][1] = None THEN "unsupported"
         ELSE IF Exists(Resolve(PathJoin(local_dir,
                   _sanitize_filename(item.name) \o EXPORT_FORMATS[item.mimeType][2])))
           THEN "skip"
           ELSE "export"
  ELSE IF UpToDate(item, PathJoin(local_dir, _sanitize_filename(item.name)))
    THEN "skip"
    ELSE "download"

\* the branch of the loop body an item takes (lines 211, 217, 219, 240)
Decision(item, local_dir) ==
  IF item.mimeType = FOLDER THEN "recurse"
  ELSE IF item.mimeType \in DOMAIN EXPORT_FORMATS
    THEN IF EXPORT_FORMATS[item.mimeType][1] = None THEN "unsupported" ELSE "export"
  ELSE IF UpToDate(item, PathJoin(local_dir, _sanitize_filename(item.name)))
    THEN "skip"
    ELSE "download"

Put(f, p, rec) == [q \in DOMAIN f \cup {p} |-> IF q = p THEN rec ELSE f[q]]

\* the byte lengths the body of an entry may have: the size the service
\* reports when it reports one
Lengths(item) == IF "size" \in DOMAIN item THEN {item.size} ELSE Sizes

\* a slip: a write that fails removes what it has left of the file
BrokenWrites_unlink(dest, item) ==
  LET p == Resolve(dest) IN
    IF p \in dirs THEN {files}
    ELSE {files, [q \in DOMAIN files \ {p} |-> files[q]]}

\* dest.write_bytes(body) that fails: the file is left alone (open failed) or
\* holds a proper prefix of the body
BrokenWrites(dest, item) ==
  LET p == Resolve(dest) IN
    IF p \in dirs THEN {files}
    ELSE {files} \cup
         UNION {{Put(files, p, [size |-> k, src |-> item.id]) : k \in 0..(n - 1)}
                : n \in Lengths(item)}

\* a slip: the chunks are written to dest as they arrive
download_to_file_streaming(dest, item) ==
  LET p == Resolve(dest) IN
    {[e |-> "fetch", files |-> f] : f \in BrokenWrites(dest, item)}
      \cup {[e |-> "write", files |-> f] : f \in BrokenWrites(dest, item)}
      \cup (IF p \in dirs THEN {}
            ELSE {[e |-> "", files |-> Put(files, p, [size |-> n, src |-> item.id])]
                  : n \in Lengths(item)})

\* _download_to_file(request, dest): the outcomes of one call, each the
\* error raised ("" for none) and the files afterwards. The body is
\* collected in memory first and written to dest after the last chunk.
download_to_file(dest, item) ==
  LET p == Resolve(dest) IN
    {[e |-> "fetch", files |-> files]}
      \cup {[e |-> "write", files |-> f] : f \in BrokenWrites(dest, item)}
      \cup (IF p \in dirs THEN {}
            ELSE {[e |-> "", files |-> Put(files, p, [size |-> n, src |-> item.id])]
                  : n \in Lengths(item)})

(* ---------------- main ---------------- *)

\* lines 312-324: the remote root is looked up; then the run starts
MainVerify ==
  /\ phase = "verify"
  /\ \E meta \in {"folder", "file", "error"} :
       IF meta = "folder"
         THEN /\ phase' = "sync"
              /\ stats' = SyncStats
              /\ stack' = <<Frame(RootId, LocalRoot, 0)>>
         ELSE /\ phase' = "exit1"
              /\ UNCHANGED <<stats, stack>>
  /\ UNCHANGED <<run, remote, nextId, dirs, files, fetches, out, cancelled, last>>
  /\ UNCHANGED <<raw_name, sanitized>>

SummaryLine == [line |-> "summary", id |-> -1, e |-> ""]

\* a slip: the handler around the download counts the interrupt as a failure
\* before it lets it pass
Interrupt_counted ==
  /\ phase = "sync"
  /\ stack' = <<>>
  /\ phase' = "done"
  /\ cancelled' = TRUE
  /\ out' = SummaryLine
  /\ \/ UNCHANGED <<files, fetches, stats>>
     \/ /\ AtItem
        /\ Decision(Item, Top.local_dir) \in {"export", "download"}
        /\ fetches' = fetches + 1
        /\ files' \in BrokenWrites(LocalPath(Item, Top.local_dir), Item)
        /\ stats' = [stats EXCEPT !.failed = @ + 1]
  /\ UNCHANGED <<run, remote, nextId, dirs, last>>
  /\ UNCHANGED <<raw_name, sanitized>>

\* lines 327-332: KeyboardInterrupt leaves every sync_folder call and main
\* prints the summary; it may arrive between two steps, inside the download
\* of the item at hand or inside the write of its file
Interrupt ==
  /\ phase = "sync"
  /\ stack' = <<>>
  /\ phase' = "done"
  /\ cancelled' = TRUE
  /\ out' = SummaryLine
  /\ \/ UNCHANGED <<files, fetches>>
     \/ /\ AtItem
        /\ Decision(Item, Top.local_dir) \in {"export", "download"}
        /\ fetches' = fetches + 1
        /\ files' \in BrokenWrites(LocalPath(Item, Top.local_dir), Item)
  /\ UNCHANGED <<run, remote, nextId, stats, dirs, last>>
  /\ UNCHANGED <<raw_name, sanitized>>

\* the program is started again on the same remote folder and local root
NextRun ==
  /\ phase \in {"done", "exit1", "crashed"}
  /\ run < MaxRuns
  /\ run' = run + 1
  /\ phase' = "verify"
  /\ last' = [phase |-> phase, cancelled |-> cancelled, stats |-> stats]
  /\ cancelled' = FALSE
  /\ fetches' = 0
  /\ out' = NoOut
  /\ UNCHANGED <<remote, nextId, stack, stats, dirs, files>>
  /\ UNCHANGED <<raw_name, sanitized>>

(* ---------------- sync_folder ---------------- *)

\* a slip: a failed mkdir is reported and the call goes on to the listing
Mkdir_swallow ==
  /\ phase = "sync" /\ stack # <<>> /\ Top.pc = "mkdir"
  /\ LET p == Resolve(Top.local_dir) IN
       \/ /\ p \in dirs
          /\ stack' = SetTop([Top EXCEPT !.pc = "list"])
          /\ out' = NoOut
          /\ UNCHANGED <<phase, dirs>>
       \/ /\ p \notin dirs
          /\ Prefixes(p) \cap DOMAIN files = {}
          /\ dirs' = dirs \cup Prefixes(p)
          /\ stack' = SetTop([Top EXCEPT !.pc = "list"])
          /\ out' = NoOut
          /\ UNCHANGED phase
       \/ /\ p \notin dirs
          /\ stack' = SetTop([Top EXCEPT !.pc = "list"])
          /\ out' = [line |-> "err", id |-> Top.folder_id, e |-> "mkdir"]
          /\ UNCHANGED <<phase, dirs>>
  /\ UNCHANGED <<run, remote, nextId, stats, files, fetches, cancelled, last>>
  /\ UNCHANGED <<raw_name, sanitized>>

\* line 199: local_dir.mkdir(parents=True, exist_ok=True)
Mkdir ==
  /\ phase = "sync" /\ stack # <<>> /\ Top.pc = "mkdir"
  /\ LET p == Resolve(Top.local_dir) IN
       \/ /\ p \in dirs
          /\ stack' = SetTop([Top EXCEPT !.pc = "list"])
          /\ out' = NoOut
          /\ UNCHANGED <<phase, dirs>>
       \/ /\ p \notin dirs
          /\ Prefixes(p) \cap DOMAIN files = {}
          /\ dirs' = dirs \cup Prefixes(p)
          /\ stack' = SetTop([Top EXCEPT !.pc = "list"])
          /\ out' = NoOut
          /\ UNCHANGED phase
       \* FileExistsError, NotADirectoryError or another OSError
       \/ /\ p \notin dirs
          /\ Uncaught("mkdir")
          /\ UNCHANGED dirs
  /\ UNCHANGED <<run, remote, nextId, stats, files, fetches, cancelled, last>>
  /\ UNCHANGED <<raw_name, sanitized>>

Min(a, b) == IF a < b THEN a ELSE b

\* a slip: the listing ends with its first page
ListPage_firstpage ==
  /\ phase = "sync" /\ stack # <<>> /\ Top.pc = "list"
  /\ \/ /\ Uncaught("list")
        /\ UNCHANGED <<remote, nextId>>
     \/ \E listing \in IF Top.folder_id \in DOMAIN remote
                         THEN {remote[Top.folder_id]}
                         ELSE Listings(nextId, MaxEntries - nextId + 1) :
          LET got  == Len(Top.items)
              rest == Len(listing) - got
          IN  \E n \in IF rest = 0 THEN {0} ELSE 1..Min(MaxPage, rest) :
                /\ remote' = IF Top.folder_id \in DOMAIN remote
                               THEN remote
                               ELSE remote @@ (Top.folder_id :> listing)
                /\ nextId' = IF Top.folder_id \in DOMAIN remote
                               THEN nextId
                               ELSE nextId + Len(listing)
                /\ stack' = SetTop([Top EXCEPT
                                      !.items = @ \o SubSeq(listing, got + 1, got + n),
                                      !.pc = "loop"])
                /\ out' = NoOut
                /\ UNCHANGED phase
  /\ UNCHANGED <<run, stats, dirs, files, fetches, cancelled, last>>
  /\ UNCHANGED <<raw_name, sanitized>>

\* lines 152-161: one page of the listing is requested and appended
ListPage ==
  /\ phase = "sync" /\ stack # <<>> /\ Top.pc = "list"
  /\ \/ \* the request raises
        /\ Uncaught("list")
        /\ UNCHANGED <<remote, nextId>>
     \/ \E listing \in IF Top.folder_id \in DOMAIN remote
                         THEN {remote[Top.folder_id]}
                         ELSE Listings(nextId, MaxEntries - nextId + 1) :
          LET got  == Len(Top.items)
              rest == Len(listing) - got
          IN  \E n \in IF rest = 0 THEN {0} ELSE 1..Min(MaxPage, rest) :
                /\ remote' = IF Top.folder_id \in DOMAIN remote
                               THEN remote
                               ELSE remote @@ (Top.folder_id :> listing)
                /\ nextId' = IF Top.folder_id \in DOMAIN remote
                               THEN nextId
                               ELSE nextId + Len(listing)
                /\ stack' = SetTop([Top EXCEPT
                                      !.items = @ \o SubSeq(listing, got + 1, got + n),
                                      \* nextPageToken is absent on the last page
                                      !.pc = IF n = rest THEN "loop" ELSE "list"])
                /\ out' = NoOut
                /\ UNCHANGED phase
  /\ UNCHANGED <<run, stats, dirs, files, fetches, cancelled, last>>
  /\ UNCHANGED <<raw_name, sanitized>>

\* a slip: the caller moves to its next item as soon as the call is started
Recurse_early ==
  /\ AtItem
  /\ Decision(Item, Top.local_dir) = "recurse"
  /\ stack' = Append(SetTop([Top EXCEPT !.i = @ + 1]),
                     Frame(Item.id,
                           PathJoin(Top.local_dir, _sanitize_filename(Item.name)),
                           Top.depth + 1))
  /\ out' = [line |-> "dir", id |-> Item.id, e |-> ""]
  /\ UNCHANGED <<phase, run, remote, nextId, stats, dirs, files, fetches,
                 cancelled, last>>
  /\ UNCHANGED <<raw_name, sanitized>>

\* lines 211-214: a subfolder is synchronised by a recursive call
Recurse ==
  /\ AtItem
  /\ Decision(Item, Top.local_dir) = "recurse"
  /\ stack' = Append(stack, Frame(Item.id,
                                  PathJoin(Top.local_dir, _sanitize_filename(Item.name)),
                                  Top.depth + 1))
  /\ out' = [line |-> "dir", id |-> Item.id, e |-> ""]
  /\ UNCHANGED <<phase, run, remote, nextId, stats, dirs, files, fetches,
                 cancelled, last>>
  /\ UNCHANGED <<raw_name, sanitized>>

\* the for loop is exhausted: sync_folder returns to its caller, which goes
\* on with its next item (line 214); main prints the summary (lines 331-332)
Return ==
  /\ phase = "sync" /\ stack # <<>> /\ Top.pc = "loop"
  /\ Top.i > Len(Top.items)
  /\ IF Len(stack) = 1
       THEN /\ stack' = <<>>
            /\ phase' = "done"
            /\ out' = SummaryLine
       ELSE /\ stack' = [SubSeq(stack, 1, Len(stack) - 1)
                           EXCEPT ![Len(stack) - 1].i = @ + 1]
            /\ out' = NoOut
            /\ UNCHANGED phase
  /\ UNCHANGED <<run, remote, nextId, stats, dirs, files, fetches, cancelled, last>>
  /\ UNCHANGED <<raw_name, sanitized>>

\* lines 217-222: a native type the table maps to no export format
Unsupported ==
  /\ AtItem
  /\ Decision(Item, Top.local_dir) = "unsupported"
  /\ stats' = [stats EXCEPT !.unsupported = @ + 1]
  /\ out' = [line |-> "unsupported", id |-> Item.id, e |-> ""]
  /\ Continue
  /\ UNCHANGED <<phase, run, remote, nextId, dirs, files, fetches, cancelled, last>>
  /\ UNCHANGED <<raw_name, sanitized>>

\* lines 224-235: a native document is exported, whatever is there locally
Export ==
  /\ AtItem
  /\ Decision(Item, Top.local_dir) = "export"
  /\ fetches' = fetches + 1
  /\ \E r \in download_to_file(LocalPath(Item, Top.local_dir), Item) :
       /\ files' = r.files
       /\ Handled(r, "exported")
  /\ UNCHANGED <<run, remote, nextId, dirs, cancelled, last>>
  /\ UNCHANGED <<raw_name, sanitized>>

\* a slip: the skipped file is not counted
Skip_uncounted ==
  /\ AtItem
  /\ Decision(Item, Top.local_dir) = "skip"
  /\ out' = [line |-> "skip", id |-> Item.id, e |-> ""]
  /\ Continue
  /\ UNCHANGED <<phase, run, remote, nextId, stats, dirs, files, fetches,
                 cancelled, last>>
  /\ UNCHANGED <<raw_name, sanitized>>

\* lines 240-245: the local copy has the remote size
Skip ==
  /\ AtItem
  /\ Decision(Item, Top.local_dir) = "skip"
  /\ stats' = [stats EXCEPT !.skipped = @ + 1]
  /\ out' = [line |-> "skip", id |-> Item.id, e |-> ""]
  /\ Continue
  /\ UNCHANGED <<phase, run, remote, nextId, dirs, files, fetches, cancelled, last>>
  /\ UNCHANGED <<raw_name, sanitized>>

\* lines 247-257: the file is downloaded
Download ==
  /\ AtItem
  /\ Decision(Item, Top.local_dir) = "download"
  /\ fetches' = fetches + 1
  /\ \E r \in download_to_file(LocalPath(Item, Top.local_dir), Item) :
       /\ files' = r.files
       /\ Handled(r, "downloaded")
  /\ UNCHANGED <<run, remote, nextId, dirs, cancelled, last>>
  /\ UNCHANGED <<raw_name, sanitized>>

Next ==
  \/ MainVerify
  \/ Mkdir
  \/ ListPage
  \/ Recurse
  \/ Return
  \/ Unsupported
  \/ Export
  \/ Skip
  \/ Download
  \/ Interrupt

\* one run of the program
Spec == Init /\ [][Next]_vars

NextAgain ==
  \/ Next
  \/ NextRun

\* the program run up to MaxRuns times, one run after the other
SpecAgain == Init /\ [][NextAgain]_vars

(* ---------------- _sanitize_filename on its own ---------------- *)

\* longest name handed to _sanitize_filename
MaxLen == 3

\* the characters of those names: a letter, whitespace, control characters
\* and reserved characters
SanChars == {"a", " ", "\n", NUL, "/", "?"}

Names == UNION {[1..n -> SanChars] : n \in 0..MaxLen}

SanInit ==
  /\ phase = "verify"
  /\ run = 1
  /\ remote = [f \in {} |-> <<>>]
  /\ nextId = 1
  /\ stack = <<>>
  /\ stats = SyncStats
  /\ dirs = {<<>>}
  /\ files = NoFiles
  /\ fetches = 0
  /\ out = NoOut
  /\ cancelled = FALSE
  /\ last = NoRun
  /\ raw_name \in Names
  /\ sanitized = <<>>

\* name = _sanitize_filename(item["name"])
Sanitize ==
  /\ sanitized = <<>>
  /\ sanitized' = <<_sanitize_filename(raw_name)>>
  /\ UNCHANGED <<syncvars, raw_name>>

\* the function applied to its own result
Resanitize ==
  /\ Len(sanitized) = 1
  /\ sanitized' = Append(sanitized, _sanitize_filename(sanitized[1]))
  /\ UNCHANGED <<syncvars, raw_name>>

SanNext ==
  \/ Sanitize
  \/ Resanitize

\* _sanitize_filename applied to every name of Names, and again to its result
SpecSan == SanInit /\ [][SanNext]_vars

TypeOK ==
  /\ phase \in {"verify", "sync", "done", "exit1", "crashed"}
  /\ run \in 1..MaxRuns
  /\ nextId \in 1..(MaxEntries + 1)
  /\ fetches \in Nat
  /\ cancelled \in BOOLEAN
  /\ raw_name \in Names
  /\ Len(sanitized) \in 0..2

(* ---------------- vocabulary of the properties ---------------- *)

\* the provider-native types (the types named application/vnd.google-apps.*)
GoogleApps ==
  {FOLDER, DOCUMENT, SPREADSHEET, PRESENTATION, DRAWING, SCRIPT, FORM, SITE, MAP}

IsRegularFile(item) == item.mimeType \notin GoogleApps

IsNativeDocument(item) == item.mimeType \in GoogleApps \ {FOLDER}

HasExportTarget(item) ==
  /\ item.mimeType \in DOMAIN EXPORT_FORMATS
  /\ EXPORT_FORMATS[item.mimeType][1] # None

Inc(counter) == [stats EXCEPT ![counter] = @ + 1]

Total ==
  stats.downloaded + stats.exported + stats.skipped + stats.unsupported + stats.failed

\* the step at hand is a step of the item's handling: no interrupt arrives
Handles == AtItem /\ ~cancelled'

\* the resolved local target of a regular file
Target(item) == Resolve(PathJoin(Top.local_dir, _sanitize_filename(item.name)))

\* the local target holds a file of the size the remote reports
SameSize(item) ==
  /\ "size" \in DOMAIN item
  /\ Target(item) \in DOMAIN files
  /\ files[Target(item)].size = item.size

\* the item the innermost loop has just left behind
Done == Top.items[Top.i - 1]

AfterItem ==
  /\ phase = "sync" /\ stack # <<>>
  /\ Top.pc = "loop" /\ Top.i > 1
  /\ out.id = Done.id

\* the caller of the innermost call goes on with its next item
BackInCaller ==
  stack' = [SubSeq(stack, 1, Len(stack) - 1) EXCEPT ![Len(stack) - 1].i = @ + 1]

NonFolders(f) ==
  Cardinality({k \in 1..Len(remote[f]) : remote[f][k].mimeType # FOLDER})

RECURSIVE CountNonFolders(_)
CountNonFolders(folders) ==
  IF folders = {} THEN 0
  ELSE LET f == CHOOSE x \in folders : TRUE
       IN  NonFolders(f) + CountNonFolders(folders \ {f})

(* ---------------- properties ---------------- *)

\* C1: when the download or the write of a non-folder entry raises, failed
\* grows by exactly 1, no other counter changes, and the error stays at the
\* entry: the run is still in sync_folder with every active call in place and
\* the innermost loop at the next sibling.
C1_EntryFailureIsContained ==
  [][(Handles /\ out'.line = "err")
       => /\ stats' = Inc("failed")
          /\ phase' = "sync"
          /\ stack' = SetTop([Top EXCEPT !.i = @ + 1])]_vars

\* a failure inside the first subfolder of the root, and the sibling after
\* that subfolder handled successfully afterwards
C1_Witness ==
  /\ AfterItem
  /\ Len(stack) = 1 /\ Top.i = 3
  /\ Top.items[1].mimeType = FOLDER
  /\ out.line = "ok"
  /\ stats.failed = 1
  /\ Total = 2

\* C2: when a run has completed without cancellation, the five counters add
\* up to the number of non-folder entries of all listings of the traversal.
C2_CountersSumToEntries ==
  (phase = "done" /\ ~cancelled)
    => /\ Total = CountNonFolders(DOMAIN remote)
       /\ out = SummaryLine

\* a completed run over a root and a subfolder with a failure and a success
C2_Witness ==
  /\ phase = "done" /\ ~cancelled
  /\ Cardinality(DOMAIN remote) >= 2
  /\ stats.failed >= 1
  /\ Total >= 2
  /\ Total > stats.failed

\* C3: every directory and every file the run creates lies in the subtree of
\* the top-level local root ("/" itself is there before the run).
C3_WritesStayInsideRoot ==
  /\ \A p \in dirs : p = <<>> \/ InsideRoot(p)
  /\ \A p \in DOMAIN files : InsideRoot(p)

\* C4: when the directory of a subfolder cannot be created, failed grows by 1,
\* the process goes on, and the caller continues with the next sibling.
C4_SubfolderMkdirFailureIsContained ==
  [][(/\ phase = "sync" /\ stack # <<>>
      /\ Top.pc = "mkdir" /\ Top.depth > 0
      /\ ~cancelled'
      /\ Resolve(Top.local_dir) \notin dirs')
       => /\ phase' = "sync"
          /\ stats' = Inc("failed")
          /\ BackInCaller]_vars

\* C5: when the listing of a subfolder fails, failed grows by 1, the process
\* goes on, and the caller continues with the next sibling.
C5_SubfolderListFailureIsContained ==
  [][(/\ phase = "sync" /\ stack # <<>>
      /\ Top.pc = "list" /\ Top.depth > 0
      /\ ~cancelled'
      \* the step appends no page
      /\ ~(/\ Len(stack') = Len(stack)
           /\ stack'[Len(stack)].pc \in {"list", "loop"}))
       => /\ phase' = "sync"
          /\ stats' = Inc("failed")
          /\ BackInCaller]_vars

\* C6: a regular file whose local target is a file of the remote size is
\* left alone: no fetch, no change of the local files, skipped grows by 1 and
\* no other counter changes.
C6_SameSizeIsSkipped ==
  [][(Handles /\ IsRegularFile(Item) /\ SameSize(Item))
       => /\ fetches' = fetches
          /\ files' = files /\ dirs' = dirs
          /\ stats' = Inc("skipped")]_vars

\* an empty remote file has just been skipped: an earlier entry of the same
\* name and size was downloaded to its target
C6_Witness ==
  /\ AfterItem
  /\ out.line = "skip"
  /\ Done.mimeType = OCTET /\ Done.size = 0
  /\ stats.skipped = 1 /\ stats.downloaded = 1 /\ Total = 2
  /\ fetches = 1

\* C7: a regular file whose local target is absent, has another size or whose
\* remote size is unknown is fetched exactly once, and exactly one of
\* downloaded (success) and failed (error) grows by 1; skipped does not.
C7_StaleIsFetchedOnce ==
  [][(Handles /\ IsRegularFile(Item) /\ ~SameSize(Item))
       => /\ fetches' = fetches + 1
          /\ \/ out'.line = "ok" /\ stats' = Inc("downloaded")
             \/ out'.line = "err" /\ stats' = Inc("failed")]_vars

\* a file of unknown remote size downloaded over the copy an earlier entry
\* of the run has left at the same target
C7_Witness ==
  /\ AfterItem
  /\ out.line = "ok"
  /\ Done.mimeType = OCTET /\ "size" \notin DOMAIN Done
  /\ stats.downloaded = 2 /\ Total = 2 /\ fetches = 2
  /\ Cardinality(DOMAIN files) = 1

\* C8: a native document with an export target is always exported to
\* local_dir/name+ext, whether or not a local copy exists: one fetch, and
\* exactly one of exported (success) and failed (error) grows by 1.
C8_ExportAlwaysFetches ==
  [][(Handles /\ HasExportTarget(Item))
       => LET dest == Append(Resolve(Top.local_dir),
                             _sanitize_filename(Item.name)
                               \o EXPORT_FORMATS[Item.mimeType][2])
          IN  /\ fetches' = fetches + 1
              /\ \/ /\ out'.line = "ok"
                    /\ stats' = Inc("exported")
                    /\ dest \in DOMAIN files'
                    /\ files'[dest].src = Item.id
                 \/ /\ out'.line = "err"
                    /\ stats' = Inc("failed")]_vars

\* two native documents exported to one and the same target, the second one
\* over the copy the first one left
C8_Witness ==
  /\ AfterItem
  /\ out.line = "ok"
  /\ Done.mimeType = SPREADSHEET
  /\ stats.exported = 2 /\ Total = 2 /\ fetches = 2
  /\ Cardinality(DOMAIN files) = 1

\* C9: a native document without export target, whatever its type, is not
\* fetched, leaves the local files alone and makes unsupported grow by 1 and
\* no other counter change.
C9_NoExportTargetIsUnsupported ==
  [][(Handles /\ IsNativeDocument(Item) /\ ~HasExportTarget(Item))
       => /\ fetches' = fetches
          /\ files' = files
          /\ stats' = Inc("unsupported")]_vars

\* the remote tree, as far as it was listed, holds folders and regular files
OnlyRegularFiles ==
  \A f \in DOMAIN remote : \A k \in 1..Len(remote[f]) :
    remote[f][k].mimeType \in {FOLDER, OCTET}

\* C10: in a run that follows a completed run without failure on the same
\* remote tree, every regular file of known size is skipped and not
\* downloaded (stated for trees of folders and regular files, and as long as
\* the run itself has met no failure).
C10_SecondRunSkipsKnownSizes ==
  [][(/\ run > 1
      /\ last.phase = "done" /\ ~last.cancelled /\ last.stats.failed = 0
      /\ OnlyRegularFiles
      /\ stats.failed = 0
      /\ Handles /\ IsRegularFile(Item) /\ "size" \in DOMAIN Item)
       => stats' = Inc("skipped")]_vars

\* C11: a KeyboardInterrupt, wherever it arrives (also inside the download or
\* the write of the item at hand, at any depth), leaves every sync_folder
\* call at once; no counter changes, the directories and the files written
\* before stay (only the target of the item at hand may hold a part of its
\* body), and main prints the summary.
C11_InterruptUnwindsAndKeepsWork ==
  [][(cancelled' /\ ~cancelled)
       => /\ stack' = <<>>
          /\ stats' = stats
          /\ phase' = "done" /\ out' = SummaryLine
          /\ dirs' = dirs
          /\ DOMAIN files \subseteq DOMAIN files'
          /\ \A p \in DOMAIN files :
               files'[p] # files[p]
                 => /\ AtItem
                    /\ IsNativeDocument(Item) \/ IsRegularFile(Item)
                    /\ p = Resolve(LocalPath(Item, Top.local_dir))]_vars

\* an interrupt inside a fetch, after a subfolder was listed and a file was
\* downloaded: one media request more than counted outcomes
C11_Witness ==
  /\ phase = "done" /\ cancelled
  /\ out = SummaryLine
  /\ Cardinality(DOMAIN remote) >= 2
  /\ stats.downloaded >= 1
  /\ DOMAIN files # {}
  /\ fetches = stats.downloaded + stats.exported + stats.failed + 1

\* C12: for every name, _sanitize_filename returns a non-empty string without
\* any of \ / : * ? " < > | and without newline, carriage return, tab and NUL;
\* a name of whitespace only and a name of control characters only yield
\* "unnamed".
C12_SanitizedIsLegal ==
  Len(sanitized) >= 1
    => LET s == sanitized[1] IN
         /\ s # <<>>
         /\ \A k \in 1..Len(s) : s[k] \notin ReservedChars \cup ControlChars
         /\ (\A k \in 1..Len(raw_name) : raw_name[k] \in Whitespace) => s = unnamed
         /\ (\A k \in 1..Len(raw_name) : raw_name[k] \in ControlChars) => s = unnamed

\* a name of a blank and a NUL only has become "unnamed"
C12_Witness ==
  /\ raw_name = <<" ", NUL>>
  /\ sanitized = <<unnamed>>

\* C20: _sanitize_filename applied to its own result returns that result, and
\* the result has no whitespace at either end.
C20_SanitizeIsIdempotent ==
  Len(sanitized) = 2
    => /\ sanitized[2] = sanitized[1]
       /\ Head(sanitized[1]) \notin Whitespace
       /\ sanitized[1][Len(sanitized[1])] \notin Whitespace

\* nothing of the run has happened: no folder listed, nothing fetched, no
\* counter moved, the local tree as the run found it
Untouched ==
  /\ remote = [f \in {} |-> <<>>]
  /\ fetches = 0
  /\ stats = SyncStats
  /\ [dirs |-> dirs, files |-> files] \in LocalStates

\* C13: when the remote root cannot be read or is no folder, main exits with
\* status 1 and nothing has been listed, created or fetched; a folder is
\* listed and an entry fetched only when the local root exists, and a failed
\* creation of the local root ends the run with no listing and no fetch; no
\* step of sync_folder exits the process, the exit is taken in main only.
C13_FatalConditionsAbortBeforeWork ==
  /\ [](phase = "exit1" => Untouched)
  /\ []((remote # [f \in {} |-> <<>>] \/ fetches > 0) => LocalRoot \in dirs)
  /\ [][(phase' = "exit1" /\ phase # "exit1")
          => phase = "verify" /\ stack = <<>>]_vars
  /\ [][(/\ phase = "sync" /\ Len(stack) = 1 /\ Top.pc = "mkdir"
          /\ LocalRoot \notin dirs' /\ ~cancelled')
          => /\ phase' = "crashed" /\ stack' = <<>>
             /\ UNCHANGED <<remote, fetches, stats, dirs, files>>]_vars

\* the local root could not be created: the run has ended with nothing listed
C13_Witness ==
  /\ phase = "crashed"
  /\ out = [line |-> "traceback", id |-> RootId, e |-> "mkdir"]
  /\ LocalRoot \notin dirs
  /\ Untouched

\* C14: no step removes a local directory or a local file, and a step changes
\* a local file only when that file is the target of the listed entry the
\* innermost loop stands at; every other local file is left as it was.
C14_MirroringIsAdditive ==
  [][/\ dirs \subseteq dirs'
     /\ DOMAIN files \subseteq DOMAIN files'
     /\ \A p \in DOMAIN files' :
          (p \notin DOMAIN files \/ files'[p] # files[p])
            => /\ AtItem
               /\ Item.mimeType # FOLDER
               /\ p = Resolve(LocalPath(Item, Top.local_dir))]_vars

\* a complete run has written a file, and the file the run found, which no
\* listed entry has as its target, is as it was
C14_Witness ==
  /\ phase = "done" /\ ~cancelled
  /\ Append(LocalRoot, <<"a">>) \in DOMAIN files
  /\ files[Append(LocalRoot, <<"a">>)] = [size |-> 1, src |-> -1]
  /\ \E p \in DOMAIN files : files[p].src >= 0
  /\ \A f \in DOMAIN remote : \A k \in 1..Len(remote[f]) :
       remote[f][k].mimeType \in {FOLDER} \cup DOMAIN EXPORT_FORMATS

\* the call of level k waits in its loop at a folder, and the call of level
\* k + 1 is the call for that folder
WaitsForChild(k) ==
  /\ stack[k].pc = "loop"
  /\ stack[k].i <= Len(stack[k].items)
  /\ stack[k].items[stack[k].i].mimeType = FOLDER
  /\ stack[k + 1].folder_id = stack[k].items[stack[k].i].id
  /\ stack[k + 1].depth = stack[k].depth + 1

\* the innermost call has gone through all its items
Exhausted == Top.pc = "loop" /\ Top.i > Len(Top.items)

\* C15: the active calls form one chain, each but the innermost waiting at
\* the folder the next one works on; a loop moves by one item at a time, and
\* only the innermost loop moves, or the loop of a caller whose callee has
\* gone through all its items and returned; counters, fetches and listings
\* change for the innermost call only, a counter for the item at hand.
C15_DepthFirstOneAtATime ==
  /\ [](\A k \in 1..(Len(stack) - 1) : WaitsForChild(k))
  /\ [][~cancelled' =>
         /\ \A k \in 1..Len(stack) : k <= Len(stack') =>
              /\ stack'[k].folder_id = stack[k].folder_id
              /\ stack'[k].i \in {stack[k].i, stack[k].i + 1}
              /\ stack'[k].i # stack[k].i =>
                   /\ Len(stack') = k
                   /\ \/ k = Len(stack) /\ stack[k].items[stack[k].i].mimeType # FOLDER
                      \/ k = Len(stack) - 1 /\ Exhausted
         /\ Len(stack') <= Len(stack) + 1
         /\ (stack # <<>> /\ Len(stack') > Len(stack))
              => AtItem /\ Item.mimeType = FOLDER
         /\ stats' # stats => AtItem /\ out'.id = Item.id /\ Item.mimeType # FOLDER
         /\ fetches' # fetches => AtItem /\ out'.id = Item.id
         /\ remote' # remote =>
              /\ Top.pc = "list"
              /\ DOMAIN remote' = DOMAIN remote \cup {Top.folder_id}]_vars

\* the call for the first item of the root, a folder, has handled its only
\* item while the root's loop still stands at that folder, a sibling to come
C15_Witness ==
  /\ phase = "sync" /\ Len(stack) = 2
  /\ Exhausted /\ Len(Top.items) = 1
  /\ stack[1].i = 1 /\ Len(stack[1].items) = 2
  /\ Total = 1

\* where the call of frame f stands is in order: before the directory is
\* made nothing is listed; while pages are requested the directory exists,
\* the pages so far are the head of the folder's children in their order and
\* no child is touched; in the loop the list is the whole listing
InOrder(f) ==
  /\ f.pc = "mkdir" => f.items = <<>> /\ f.i = 1
  /\ f.pc = "list" =>
       /\ Resolve(f.local_dir) \in dirs
       /\ f.i = 1
       /\ f.folder_id \in DOMAIN remote
            => /\ Len(f.items) < Len(remote[f.folder_id])
               /\ f.items = SubSeq(remote[f.folder_id], 1, Len(f.items))
       /\ f.folder_id \notin DOMAIN remote => f.items = <<>>
  /\ f.pc = "loop" =>
       /\ Resolve(f.local_dir) \in dirs
       /\ f.folder_id \in DOMAIN remote
       /\ f.items = remote[f.folder_id]

\* C16: every sync_folder call makes its directory, then requests pages until
\* one comes without nextPageToken, the pages joined in their order, and only
\* then enters its loop; a counter, a fetch, a file or a recursive call
\* happens only for a call that is in its loop, never while its directory is
\* missing or its listing incomplete.
C16_MkdirThenFullListingThenChildren ==
  /\ [](\A k \in 1..Len(stack) :
          /\ InOrder(stack[k])
          /\ stack[k].pc # "loop" => k = Len(stack))
  /\ [][~cancelled' =>
         /\ \A k \in 1..Len(stack) : k <= Len(stack') =>
              <<stack[k].pc, stack'[k].pc>> \in
                {<<"mkdir", "mkdir">>, <<"mkdir", "list">>, <<"list", "list">>,
                 <<"list", "loop">>, <<"loop", "loop">>}
         /\ (stack # <<>> /\ (stats' # stats \/ fetches' # fetches \/ files' # files
                               \/ Len(stack') > Len(stack)))
              => Top.pc = "loop" /\ InOrder(Top)
         /\ dirs' # dirs => Top.pc = "mkdir"]_vars

\* a listing that took more than one page is complete, and its first child
\* has been handled
C16_Witness ==
  /\ phase = "sync" /\ Len(stack) = 1
  /\ Top.pc = "loop" /\ Len(Top.items) > MaxPage
  /\ Top.items = remote[RootId]
  /\ Top.i = 2 /\ Total = 1

AllFoldersListed ==
  \A f \in DOMAIN remote : \A k \in 1..Len(remote[f]) :
    remote[f][k].mimeType = FOLDER => remote[f][k].id \in DOMAIN remote

\* C19: when every listing request and every fetch returns, with a result or
\* with an error, and the run is not interrupted, the root call returns after
\* every folder of the tree was listed and every non-folder entry was handled
\* once. (Failures of the local mkdir are left aside.)
C19_RunHandlesEveryEntryOnce ==
  (phase \in {"done", "crashed"} /\ ~cancelled /\ out.e # "mkdir" /\ out.id # RootId)
    => /\ phase = "done"
       /\ AllFoldersListed
       /\ Total = CountNonFolders(DOMAIN remote)

\* the listed entries, each as the folder that holds it and its place there
Entries == {e \in (DOMAIN remote) \X (1..MaxEntries) : e[2] <= Len(remote[e[1]])}

EntryAt(e) == remote[e[1]][e[2]]

\* the folder whose listing holds the folder f
ParentOf(f) ==
  CHOOSE p \in DOMAIN remote : \E k \in 1..Len(remote[p]) : remote[p][k].id = f

NameOf(f) ==
  LET p == ParentOf(f)
      k == CHOOSE j \in 1..Len(remote[p]) : remote[p][j].id = f
  IN  remote[p][k].name

\* root/sanitized-path: the local directory of the remote folder f
RECURSIVE DirOf(_)
DirOf(f) ==
  IF f = RootId THEN LocalRoot
  ELSE PathJoin(DirOf(ParentOf(f)), _sanitize_filename(NameOf(f)))

\* the extension the table gives to the export of a native document
Ext(item) ==
  CASE item.mimeType = DOCUMENT     -> <<".", "d", "o", "c", "x">>
    [] item.mimeType = SPREADSHEET  -> <<".", "x", "l", "s", "x">>
    [] item.mimeType = PRESENTATION -> <<".", "p", "p", "t", "x">>
    [] item.mimeType = DRAWING      -> <<".", "p", "n", "g">>
    [] item.mimeType = SCRIPT       -> <<".", "j", "s", "o", "n">>
    [] OTHER                        -> <<>>

\* the resolved local path an entry is mirrored to
MirrorPath(e) ==
  LET item == EntryAt(e)
      name == _sanitize_filename(item.name)
  IN  Resolve(PathJoin(DirOf(e[1]),
                       IF HasExportTarget(item) THEN name \o Ext(item) ELSE name))

\* the entries that have a local target: folders, regular files and
\* exportable native documents
Mirrored(e) ==
  \/ EntryAt(e).mimeType = FOLDER
  \/ IsRegularFile(EntryAt(e))
  \/ HasExportTarget(EntryAt(e))

DistinctTargets ==
  \A e1, e2 \in Entries :
    (e1 # e2 /\ Mirrored(e1) /\ Mirrored(e2)) => MirrorPath(e1) # MirrorPath(e2)

\* the file at p holds the bytes the run fetched for item
HoldsFetched(p, item) ==
  /\ p \in DOMAIN files
  /\ files[p].src = item.id
  /\ "size" \in DOMAIN item => files[p].size = item.size

\* C17: after a complete run without a failure and with pairwise distinct
\* targets, every remote folder has its local directory, every regular file
\* has at its target the fetched bytes or a file of equal size that was there
\* before, every exportable native document has at target+ext the exported
\* bytes, and no file comes from a native document without an export target.
C17_LocalTreeMirrorsRemote ==
  (phase = "done" /\ ~cancelled /\ stats.failed = 0 /\ DistinctTargets)
    => /\ AllFoldersListed
       /\ \A f \in DOMAIN remote : Resolve(DirOf(f)) \in dirs
       /\ \A e \in Entries :
            LET item == EntryAt(e) IN
              /\ IsRegularFile(item) =>
                   \/ HoldsFetched(MirrorPath(e), item)
                   \/ /\ MirrorPath(e) \in DOMAIN files
                      /\ files[MirrorPath(e)].src = -1
                      /\ "size" \in DOMAIN item
                      /\ files[MirrorPath(e)].size = item.size
              /\ HasExportTarget(item) => HoldsFetched(MirrorPath(e), item)
              /\ (IsNativeDocument(item) /\ ~HasExportTarget(item)) =>
                   \A p \in DOMAIN files : files[p].src # item.id

====
